---- MODULE Spec2Model ----
(***************************************************************************)
(* Order cache: primary store (OrderIndexedStorage), per-user and          *)
(* per-security index buckets, per-security aggregate snapshots and the    *)
(* matching-size query, modelled from src/OrderCache.cpp (the facade),     *)
(* src/OrderValidator.h and the OrderIndexedStorage class.                 *)
(*                                                                         *)
(* The cache is a record; every facade operation is an operator from a     *)
(* cache (and its arguments) to the cache after the call, field "result"   *)
(* telling whether the call returned ("ok") or threw                       *)
(* ("invalid_argument").  The actions commit such a call to the variables. *)
(***************************************************************************)
EXTENDS Integers, Sequences, FiniteSets, TLC

VARIABLES m_orders, m_orderPositions, m_aliveOrderIndexes,
          m_userOrderIds, m_securityOrderIds, m_securitySnapshots, result

vars == <<m_orders, m_orderPositions, m_aliveOrderIndexes,
          m_userOrderIds, m_securityOrderIds, m_securitySnapshots, result>>

----------------------------------------------------------------------------
\* Bounds of the model.

\* Initial number of slots of the primary store; it stands for
\* ORDERS_STORAGE_CAPACITY (1'048'576), small enough that an add beyond it
\* takes the resize branch of OrderIndexedStorage::addOrder.
ORDERS_STORAGE_CAPACITY == 2

\* addOrder is explored only while the security's maxVolumes vector holds
\* fewer than this many entries.
MaxVolumesLen == 3

\* The largest value of the type of a slot index; it stands for
\* numeric_limits<uint64_t>::max(), so that an order id of two nines does
\* not fit.
UINT64_MAX == 9

\* The same bound for the scenario specification, whose six adds fill six
\* entries.
MaxVolumesLenS3 == 6

\* The largest value of unsigned int, the type of an order's quantity and
\* of the matching size returned; it stands for 2^32 - 1 and is above
\* every sum of quantities of the scenarios.
UINT_MAX == 8191

\* The largest value of int64_t, the type the matching size is computed
\* in; it stands for 2^63 - 1.
INT64_MAX == 1073741823

\* The bound on maxVolumes for the specification of large quantities,
\* whose four adds fill four entries.
MaxVolumesLenWide == 4

----------------------------------------------------------------------------
\* Constants of the program.

BUY_SIDE == "Buy"
SELL_SIDE == "Sell"
ORDER_ID_PREFIX == <<"O", "r", "d", "I", "d">>

\* numeric_limits<uint32_t>::max() in the source; here the largest integer
\* the checker's arithmetic holds.  Only compared with positions.
INVALID_ORDER_POSITION == 2147483647

\* Order{"", "", "", 0, "", ""}: the filler of unused slots.
BlankOrder ==
    [orderId |-> <<>>, securityId |-> "", side |-> "", qty |-> 0,
     user |-> "", company |-> ""]

Order(ordId, secId, side, qty, user, company) ==
    [orderId |-> ordId, securityId |-> secId, side |-> side, qty |-> qty,
     user |-> user, company |-> company]

----------------------------------------------------------------------------
\* Containers.

\* std::unordered_map as a function whose domain is the set of keys present.
EmptyMap == [k \in {} |-> 0]
MapHas(m, k) == k \in DOMAIN m
MapPut(m, k, v) == [x \in (DOMAIN m) \cup {k} |-> IF x = k THEN v ELSE m[x]]
MapErase(m, k) == [x \in (DOMAIN m) \ {k} |-> m[x]]

\* std::vector as a sequence; C++ position p is element p + 1.
Back(s) == s[Len(s)]
PopBack(s) == SubSeq(s, 1, Len(s) - 1)
InsertAt(s, i, v) == SubSeq(s, 1, i - 1) \o <<v>> \o SubSeq(s, i, Len(s))
EraseAt(s, i) == SubSeq(s, 1, i - 1) \o SubSeq(s, i + 1, Len(s))

\* std::find: the first element equal to v, Len(s) + 1 for end().
Find(s, v) ==
    IF \E i \in 1..Len(s) : s[i] = v
        THEN CHOOSE i \in 1..Len(s) :
                 s[i] = v /\ \A j \in 1..(i - 1) : s[j] # v
        ELSE Len(s) + 1

\* std::lower_bound on a sorted vector: the first element not less than v,
\* Len(s) + 1 for end().
LowerBound(s, v) ==
    IF \E i \in 1..Len(s) : s[i] >= v
        THEN CHOOSE i \in 1..Len(s) :
                 s[i] >= v /\ \A j \in 1..(i - 1) : s[j] < v
        ELSE Len(s) + 1

Max(a, b) == IF a >= b THEN a ELSE b
Min(a, b) == IF a <= b THEN a ELSE b

----------------------------------------------------------------------------
\* OrderValidator.

NoError == "NoError"

IsDigit(ch) == ch \in {"0", "1", "2", "3", "4", "5", "6", "7", "8", "9"}

DigitValue(ch) ==
    CASE ch = "0" -> 0 [] ch = "1" -> 1 [] ch = "2" -> 2 [] ch = "3" -> 3
      [] ch = "4" -> 4 [] ch = "5" -> 5 [] ch = "6" -> 6 [] ch = "7" -> 7
      [] ch = "8" -> 8 [] ch = "9" -> 9

\* id.find(ORDER_ID_PREFIX) == 0
StartsWithPrefix(id) ==
    /\ Len(id) >= Len(ORDER_ID_PREFIX)
    /\ SubSeq(id, 1, Len(ORDER_ID_PREFIX)) = ORDER_ID_PREFIX

_validateOrderIdFormat(id) ==
    IF ~StartsWithPrefix(id) THEN "InvalidOrderIdFormat"
    ELSE IF \E i \in (Len(ORDER_ID_PREFIX) + 1)..Len(id) : ~IsDigit(id[i])
        THEN "InvalidOrderIdFormat"
    ELSE NoError

\* validateOrder without its last check.
validateOrder_NoQuantityCheck(o) ==
    IF o.orderId = <<>> THEN "EmptyOrderId"
    ELSE IF _validateOrderIdFormat(o.orderId) # NoError
        THEN _validateOrderIdFormat(o.orderId)
    ELSE IF o.securityId = "" THEN "EmptySecurityId"
    ELSE IF o.user = "" THEN "EmptyUser"
    ELSE IF o.company = "" THEN "EmptyCompany"
    ELSE IF o.side # BUY_SIDE /\ o.side # SELL_SIDE THEN "InvalidSide"
    ELSE NoError

validateOrder(o) ==
    IF o.orderId = <<>> THEN "EmptyOrderId"
    ELSE IF _validateOrderIdFormat(o.orderId) # NoError
        THEN _validateOrderIdFormat(o.orderId)
    ELSE IF o.securityId = "" THEN "EmptySecurityId"
    ELSE IF o.user = "" THEN "EmptyUser"
    ELSE IF o.company = "" THEN "EmptyCompany"
    ELSE IF o.side # BUY_SIDE /\ o.side # SELL_SIDE THEN "InvalidSide"
    ELSE IF o.qty = 0 THEN "ZeroQuantity"
    ELSE NoError

----------------------------------------------------------------------------
\* Order id to slot index.

NullOpt == [has |-> FALSE, value |-> 0]
Some(v) == [has |-> TRUE, value |-> v]

\* The length of the run of decimal digits s starts with.
RECURSIVE DigitRun(_)
DigitRun(s) ==
    IF s = <<>> \/ ~IsDigit(Head(s)) THEN 0 ELSE 1 + DigitRun(Tail(s))

RECURSIVE DigitsValue(_, _)
DigitsValue(s, acc) ==
    IF s = <<>> THEN acc
    ELSE DigitsValue(Tail(s), 10 * acc + DigitValue(Head(s)))

\* std::from_chars into a uint64_t: the leading digit run is converted and
\* what follows it is left unread; no digit at all is an error, and so is
\* a digit run whose value does not fit the type.
from_chars(s) ==
    IF DigitRun(s) = 0 THEN [ec |-> "invalid_argument", value |-> 0]
    ELSE IF DigitsValue(SubSeq(s, 1, DigitRun(s)), 0) > UINT64_MAX
        THEN [ec |-> "result_out_of_range", value |-> 0]
    ELSE [ec |-> "ok", value |-> DigitsValue(SubSeq(s, 1, DigitRun(s)), 0)]

_idToIndex(id) ==
    IF Len(id) <= Len(ORDER_ID_PREFIX) THEN NullOpt
    ELSE IF SubSeq(id, 1, Len(ORDER_ID_PREFIX)) # ORDER_ID_PREFIX THEN NullOpt
    ELSE LET numPart == SubSeq(id, Len(ORDER_ID_PREFIX) + 1, Len(id))
             parsed == from_chars(numPart)
         IN  IF parsed.ec # "ok" THEN NullOpt ELSE Some(parsed.value)

----------------------------------------------------------------------------
\* OrderIndexedStorage: m_orders and m_orderPositions are vectors indexed by
\* slot (functions on 0..size-1), m_aliveOrderIndexes lists the live slots.

StorageSize(c) == Cardinality(DOMAIN c.m_orderPositions)

\* vector::resize(n, fill) that only ever grows.
Resize(v, n, fill) ==
    [i \in 0..(n - 1) |-> IF i \in DOMAIN v THEN v[i] ELSE fill]

hasOrder(c, index) ==
    /\ index < StorageSize(c)
    /\ c.m_orderPositions[index] # INVALID_ORDER_POSITION

getOrder(c, index) == c.m_orders[index]

Storage_addOrder(c, order, index) ==
    LET grow == index >= Cardinality(DOMAIN c.m_orders)
        orders == IF grow THEN Resize(c.m_orders, index + 1, BlankOrder)
                  ELSE c.m_orders
        positions == IF grow
                     THEN Resize(c.m_orderPositions, index + 1,
                                 INVALID_ORDER_POSITION)
                     ELSE c.m_orderPositions
    IN  [c EXCEPT
            !.m_orderPositions =
                [positions EXCEPT ![index] = Len(c.m_aliveOrderIndexes)],
            !.m_aliveOrderIndexes = Append(@, index),
            !.m_orders = [orders EXCEPT ![index] = order]]

\* Storage cancelOrder that leaves the position of the swapped-in entry.
Storage_cancelOrder_NoRepair(c, index) ==
    LET removePosition == c.m_orderPositions[index]
        lastAliveIdx == Back(c.m_aliveOrderIndexes)
        alive == [c.m_aliveOrderIndexes EXCEPT
                     ![removePosition + 1] = lastAliveIdx]
    IN  [c EXCEPT
            !.m_aliveOrderIndexes = PopBack(alive),
            !.m_orderPositions =
                [@ EXCEPT ![index] = INVALID_ORDER_POSITION]]

Storage_cancelOrder(c, index) ==
    LET removePosition == c.m_orderPositions[index]
        lastAliveIdx == Back(c.m_aliveOrderIndexes)
        alive == [c.m_aliveOrderIndexes EXCEPT
                     ![removePosition + 1] = lastAliveIdx]
        positions == [c.m_orderPositions EXCEPT
                         ![lastAliveIdx] = removePosition]
    IN  [c EXCEPT
            !.m_aliveOrderIndexes = PopBack(alive),
            !.m_orderPositions =
                [positions EXCEPT ![index] = INVALID_ORDER_POSITION]]

\* Storage getAllOrders walking the slots in ascending order, not the
\* alive list.
Storage_getAllOrders_BySlot(c) ==
    LET RECURSIVE Walk(_)
        Walk(i) ==
            IF i >= StorageSize(c) THEN <<>>
            ELSE IF hasOrder(c, i) THEN <<c.m_orders[i]>> \o Walk(i + 1)
            ELSE Walk(i + 1)
    IN  Walk(0)

Storage_getAllOrders(c) ==
    [k \in 1..Len(c.m_aliveOrderIndexes) |->
        c.m_orders[c.m_aliveOrderIndexes[k]]]

----------------------------------------------------------------------------
\* Secondary indices: key -> vector of slot indices.

_addOrderId(map, key, id) ==
    IF ~MapHas(map, key) THEN MapPut(map, key, <<id>>)
    ELSE MapPut(map, key, Append(map[key], id))

\* _removeOrderId dropping the last entry of the bucket without the swap.
_removeOrderId_PopOnly(map, key, id) ==
    IF ~MapHas(map, key) THEN map
    ELSE LET orderIds == map[key]
             after == IF Find(orderIds, id) <= Len(orderIds)
                      THEN PopBack(orderIds)
                      ELSE orderIds
         IN  IF after = <<>> THEN MapErase(map, key)
             ELSE MapPut(map, key, after)

\* _removeOrderId that leaves the key of an emptied bucket in the map.
_removeOrderId_KeepKey(map, key, id) ==
    IF ~MapHas(map, key) THEN map
    ELSE LET orderIds == map[key]
             idIt == Find(orderIds, id)
         IN  MapPut(map, key,
                    IF idIt <= Len(orderIds)
                    THEN PopBack([orderIds EXCEPT ![idIt] = Back(orderIds)])
                    ELSE orderIds)

_removeOrderId(map, key, id) ==
    IF ~MapHas(map, key) THEN map
    ELSE LET orderIds == map[key]
             idIt == Find(orderIds, id)
             \* std::swap(*idIt, back); pop_back()
             after == IF idIt <= Len(orderIds)
                      THEN PopBack([orderIds EXCEPT ![idIt] = Back(orderIds)])
                      ELSE orderIds
         IN  IF after = <<>> THEN MapErase(map, key)
             ELSE MapPut(map, key, after)

----------------------------------------------------------------------------
\* Per-security snapshot.

EmptyCompanyVolume == [buy |-> 0, sell |-> 0]

EmptySnapshot ==
    [totalBuy |-> 0, totalSell |-> 0, maxVolumes |-> <<>>,
     companyVolumes |-> EmptyMap]

\* unordered_map::operator[]: the value at k, default-constructed if absent.
MapAt(m, k, default) == IF MapHas(m, k) THEN m[k] ELSE default

\* _addOrderToSnapshot that books every order on the buy side.
_addOrderToSnapshot_BuyOnly(order, snapshot) ==
    LET compVol == MapAt(snapshot.companyVolumes, order.company,
                         EmptyCompanyVolume)
        qty == order.qty
        newVol == [compVol EXCEPT !.buy = @ + qty]
        insertVolume == newVol.buy + newVol.sell
    IN  [totalBuy |-> snapshot.totalBuy + qty,
         totalSell |-> snapshot.totalSell,
         companyVolumes |->
             MapPut(snapshot.companyVolumes, order.company, newVol),
         maxVolumes |->
             InsertAt(snapshot.maxVolumes,
                      LowerBound(snapshot.maxVolumes, insertVolume),
                      insertVolume)]

_addOrderToSnapshot(order, snapshot) ==
    LET compVol == MapAt(snapshot.companyVolumes, order.company,
                         EmptyCompanyVolume)
        qty == order.qty
        isBuy == order.side = BUY_SIDE
        newVol == IF isBuy THEN [compVol EXCEPT !.buy = @ + qty]
                  ELSE [compVol EXCEPT !.sell = @ + qty]
        insertVolume == newVol.buy + newVol.sell
    IN  [totalBuy |-> IF isBuy THEN snapshot.totalBuy + qty
                      ELSE snapshot.totalBuy,
         totalSell |-> IF isBuy THEN snapshot.totalSell
                       ELSE snapshot.totalSell + qty,
         companyVolumes |->
             MapPut(snapshot.companyVolumes, order.company, newVol),
         maxVolumes |->
             InsertAt(snapshot.maxVolumes,
                      LowerBound(snapshot.maxVolumes, insertVolume),
                      insertVolume)]

\* _removeOrderFromSnapshot that leaves totalBuy and totalSell as they are.
_removeOrderFromSnapshot_KeepTotals(order, snapshot) ==
    LET compVol == MapAt(snapshot.companyVolumes, order.company,
                         EmptyCompanyVolume)
        qty == order.qty
        isBuy == order.side = BUY_SIDE
        removeCompanyVolume == compVol.buy + compVol.sell
        newVol == IF isBuy THEN [compVol EXCEPT !.buy = @ - qty]
                  ELSE [compVol EXCEPT !.sell = @ - qty]
        removeIt == LowerBound(snapshot.maxVolumes, removeCompanyVolume)
    IN  [totalBuy |-> snapshot.totalBuy,
         totalSell |-> snapshot.totalSell,
         companyVolumes |->
             MapPut(snapshot.companyVolumes, order.company, newVol),
         maxVolumes |->
             IF /\ removeIt <= Len(snapshot.maxVolumes)
                /\ snapshot.maxVolumes[removeIt] = removeCompanyVolume
             THEN EraseAt(snapshot.maxVolumes, removeIt)
             ELSE snapshot.maxVolumes]

_removeOrderFromSnapshot(order, snapshot) ==
    LET compVol == MapAt(snapshot.companyVolumes, order.company,
                         EmptyCompanyVolume)
        qty == order.qty
        isBuy == order.side = BUY_SIDE
        removeCompanyVolume == compVol.buy + compVol.sell
        newVol == IF isBuy THEN [compVol EXCEPT !.buy = @ - qty]
                  ELSE [compVol EXCEPT !.sell = @ - qty]
        removeIt == LowerBound(snapshot.maxVolumes, removeCompanyVolume)
    IN  [totalBuy |-> IF isBuy THEN snapshot.totalBuy - qty
                      ELSE snapshot.totalBuy,
         totalSell |-> IF isBuy THEN snapshot.totalSell
                       ELSE snapshot.totalSell - qty,
         companyVolumes |->
             MapPut(snapshot.companyVolumes, order.company, newVol),
         maxVolumes |->
             IF /\ removeIt <= Len(snapshot.maxVolumes)
                /\ snapshot.maxVolumes[removeIt] = removeCompanyVolume
             THEN EraseAt(snapshot.maxVolumes, removeIt)
             ELSE snapshot.maxVolumes]

ADD_ORDER == "ADD_ORDER"
REMOVE_ORDER == "REMOVE_ORDER"

\* _updateSecuritySnapshots folding the order into the snapshot of every
\* security the cache has, not only its own.
_updateSecuritySnapshots_Every(c, order, action) ==
    LET keys == DOMAIN c.m_securitySnapshots \cup {order.securityId}
    IN  [c EXCEPT !.m_securitySnapshots =
            [k \in keys |->
                LET snapshot == MapAt(c.m_securitySnapshots, k, EmptySnapshot)
                IN  IF action = ADD_ORDER
                    THEN _addOrderToSnapshot(order, snapshot)
                    ELSE _removeOrderFromSnapshot(order, snapshot)]]

_updateSecuritySnapshots(c, order, action) ==
    LET snapshot == MapAt(c.m_securitySnapshots, order.securityId,
                          EmptySnapshot)
    IN  [c EXCEPT !.m_securitySnapshots =
            MapPut(@, order.securityId,
                   IF action = ADD_ORDER
                   THEN _addOrderToSnapshot(order, snapshot)
                   ELSE _removeOrderFromSnapshot(order, snapshot))]

----------------------------------------------------------------------------
\* The facade, OrderCache.

Throw(c) == [c EXCEPT !.result = "invalid_argument"]
Return(c) == [c EXCEPT !.result = "ok"]

\* The cache after construction.
OrderCache ==
    [m_orders |-> [i \in 0..(ORDERS_STORAGE_CAPACITY - 1) |-> BlankOrder],
     m_orderPositions |->
         [i \in 0..(ORDERS_STORAGE_CAPACITY - 1) |-> INVALID_ORDER_POSITION],
     m_aliveOrderIndexes |-> <<>>,
     m_userOrderIds |-> EmptyMap,
     m_securityOrderIds |-> EmptyMap,
     m_securitySnapshots |-> EmptyMap,
     result |-> "ok"]

\* addOrder that overwrites the stored order when the slot is live.
addOrder_Overwrite(c, order) ==
    IF validateOrder(order) # NoError THEN Throw(c)
    ELSE LET idValue == _idToIndex(order.orderId) IN
        IF ~idValue.has THEN Throw(c)
        ELSE IF hasOrder(c, idValue.value)
            THEN Return([c EXCEPT !.m_orders[idValue.value] = order])
        ELSE LET index == idValue.value
                 c1 == [c EXCEPT !.m_userOrderIds =
                           _addOrderId(@, order.user, index)]
                 c2 == [c1 EXCEPT !.m_securityOrderIds =
                           _addOrderId(@, order.securityId, index)]
                 c3 == _updateSecuritySnapshots(c2, order, ADD_ORDER)
             IN  Return(Storage_addOrder(c3, order, index))

\* addOrder that stores the order at the next unused place of the store,
\* not at the slot its id decodes to.
addOrder_NextPlace(c, order) ==
    IF validateOrder(order) # NoError THEN Throw(c)
    ELSE LET idValue == _idToIndex(order.orderId) IN
        IF ~idValue.has THEN Throw(c)
        ELSE IF hasOrder(c, idValue.value) THEN Return(c)
        ELSE LET index == Len(c.m_aliveOrderIndexes)
                 c1 == [c EXCEPT !.m_userOrderIds =
                           _addOrderId(@, order.user, index)]
                 c2 == [c1 EXCEPT !.m_securityOrderIds =
                           _addOrderId(@, order.securityId, index)]
                 c3 == _updateSecuritySnapshots(c2, order, ADD_ORDER)
             IN  Return(Storage_addOrder(c3, order, index))

addOrder(c, order) ==
    IF validateOrder(order) # NoError THEN Throw(c)
    ELSE LET idValue == _idToIndex(order.orderId) IN
        IF ~idValue.has THEN Throw(c)
        ELSE IF hasOrder(c, idValue.value) THEN Return(c)
        ELSE LET index == idValue.value
                 c1 == [c EXCEPT !.m_userOrderIds =
                           _addOrderId(@, order.user, index)]
                 c2 == [c1 EXCEPT !.m_securityOrderIds =
                           _addOrderId(@, order.securityId, index)]
                 c3 == _updateSecuritySnapshots(c2, order, ADD_ORDER)
             IN  Return(Storage_addOrder(c3, order, index))

\* _cancelOrderByIndex that leaves the snapshot as it is.
_cancelOrderByIndex_NoSnapshot(c, index) ==
    LET order == getOrder(c, index)
        c1 == [c EXCEPT !.m_userOrderIds =
                  _removeOrderId(@, order.user, index)]
        c2 == [c1 EXCEPT !.m_securityOrderIds =
                  _removeOrderId(@, order.securityId, index)]
    IN  Storage_cancelOrder(c2, index)

_cancelOrderByIndex(c, index) ==
    LET order == getOrder(c, index)
        c1 == [c EXCEPT !.m_userOrderIds =
                  _removeOrderId(@, order.user, index)]
        c2 == [c1 EXCEPT !.m_securityOrderIds =
                  _removeOrderId(@, order.securityId, index)]
        c3 == _updateSecuritySnapshots(c2, order, REMOVE_ORDER)
    IN  Storage_cancelOrder(c3, index)

\* cancelOrder that reports an absent order as an error.
cancelOrder_ThrowAbsent(c, orderId) ==
    LET idValue == _idToIndex(orderId) IN
        IF ~idValue.has THEN Throw(c)
        ELSE IF ~hasOrder(c, idValue.value) THEN Throw(c)
        ELSE Return(_cancelOrderByIndex(c, idValue.value))

cancelOrder(c, orderId) ==
    LET idValue == _idToIndex(orderId) IN
        IF ~idValue.has THEN Throw(c)
        ELSE IF ~hasOrder(c, idValue.value) THEN Return(c)
        ELSE Return(_cancelOrderByIndex(c, idValue.value))

\* for (const auto index : orderIds) over the copied bucket, from element k.
RECURSIVE CancelEach(_, _, _)
CancelEach(c, orderIds, k) ==
    IF k > Len(orderIds) THEN c
    ELSE IF ~hasOrder(c, orderIds[k]) THEN CancelEach(c, orderIds, k + 1)
    ELSE CancelEach(_cancelOrderByIndex(c, orderIds[k]), orderIds, k + 1)

\* cancelOrdersForUser looping over the bucket itself, not over a copy.
RECURSIVE CancelEachInPlace(_, _, _)
CancelEachInPlace(c, user, k) ==
    IF ~MapHas(c.m_userOrderIds, user) THEN c
    ELSE IF k > Len(c.m_userOrderIds[user]) THEN c
    ELSE CancelEachInPlace(_cancelOrderByIndex(c, c.m_userOrderIds[user][k]),
                           user, k + 1)

cancelOrdersForUser_InPlace(c, user) == Return(CancelEachInPlace(c, user, 1))

cancelOrdersForUser(c, user) ==
    IF MapHas(c.m_userOrderIds, user)
    THEN Return(CancelEach(c, c.m_userOrderIds[user], 1))
    ELSE Return(c)

RECURSIVE CancelEachWithMinimumQty(_, _, _, _)
CancelEachWithMinimumQty(c, orderIds, minQty, k) ==
    IF k > Len(orderIds) THEN c
    ELSE IF ~hasOrder(c, orderIds[k]) \/ getOrder(c, orderIds[k]).qty < minQty
        THEN CancelEachWithMinimumQty(c, orderIds, minQty, k + 1)
    ELSE CancelEachWithMinimumQty(_cancelOrderByIndex(c, orderIds[k]),
                                  orderIds, minQty, k + 1)

\* The cancel by security sparing the orders of exactly the minimum
\* quantity.
cancelOrdersForSecIdWithMinimumQty_Above(c, securityId, minQty) ==
    IF minQty = 0 THEN Return(c)
    ELSE IF ~MapHas(c.m_securityOrderIds, securityId) THEN Return(c)
    ELSE Return(CancelEachWithMinimumQty(
                    c, c.m_securityOrderIds[securityId], minQty + 1, 1))

\* The cancel by security without the test of a zero minimum.
cancelOrdersForSecIdWithMinimumQty_NoZeroTest(c, securityId, minQty) ==
    IF ~MapHas(c.m_securityOrderIds, securityId) THEN Return(c)
    ELSE Return(CancelEachWithMinimumQty(
                    c, c.m_securityOrderIds[securityId], minQty, 1))

cancelOrdersForSecIdWithMinimumQty(c, securityId, minQty) ==
    IF minQty = 0 THEN Return(c)
    ELSE IF ~MapHas(c.m_securityOrderIds, securityId) THEN Return(c)
    ELSE Return(CancelEachWithMinimumQty(
                    c, c.m_securityOrderIds[securityId], minQty, 1))

\* The conversion of the int64_t result to the unsigned int returned: the
\* value modulo 2^width.
ToUnsignedInt(v) == v % (UINT_MAX + 1)

\* The closed form returning the larger of the two matched sides.
MatchingSize_Max(B, S, V) ==
    IF B = 0 \/ S = 0 THEN 0
    ELSE LET exBuy == Max(0, V - S)
             exSell == Max(0, V - B)
             matchBuy == Max(0, B - exBuy)
             matchSell == Max(0, S - exSell)
         IN  Max(matchBuy, matchSell)

\* The closed form on the snapshot's B, S and V.
MatchingSize(B, S, V) ==
    IF B = 0 \/ S = 0 THEN 0
    ELSE LET exBuy == Max(0, V - S)
             exSell == Max(0, V - B)
             matchBuy == Max(0, B - exBuy)
             matchSell == Max(0, S - exSell)
         IN  Min(matchBuy, matchSell)

getMatchingSizeForSecurity(c, securityId) ==
    IF MapHas(c.m_securitySnapshots, securityId)
    THEN LET snapshot == c.m_securitySnapshots[securityId]
         IN  ToUnsignedInt(
                 MatchingSize(snapshot.totalBuy, snapshot.totalSell,
                              IF snapshot.maxVolumes = <<>> THEN 0
                              ELSE Back(snapshot.maxVolumes)))
    ELSE 0

getAllOrders(c) == Storage_getAllOrders(c)

----------------------------------------------------------------------------
\* The state machine: one action per mutating operation of the facade.

Self ==
    [m_orders |-> m_orders, m_orderPositions |-> m_orderPositions,
     m_aliveOrderIndexes |-> m_aliveOrderIndexes,
     m_userOrderIds |-> m_userOrderIds,
     m_securityOrderIds |-> m_securityOrderIds,
     m_securitySnapshots |-> m_securitySnapshots, result |-> result]

Commit(c) ==
    /\ m_orders' = c.m_orders
    /\ m_orderPositions' = c.m_orderPositions
    /\ m_aliveOrderIndexes' = c.m_aliveOrderIndexes
    /\ m_userOrderIds' = c.m_userOrderIds
    /\ m_securityOrderIds' = c.m_securityOrderIds
    /\ m_securitySnapshots' = c.m_securitySnapshots
    /\ result' = c.result

Init ==
    /\ m_orders = OrderCache.m_orders
    /\ m_orderPositions = OrderCache.m_orderPositions
    /\ m_aliveOrderIndexes = OrderCache.m_aliveOrderIndexes
    /\ m_userOrderIds = OrderCache.m_userOrderIds
    /\ m_securityOrderIds = OrderCache.m_securityOrderIds
    /\ m_securitySnapshots = OrderCache.m_securitySnapshots
    /\ result = OrderCache.result

\* The inputs the operations are called with.
OrdId(n) == ORDER_ID_PREFIX \o <<n>>
OrderIds == {OrdId("0"), OrdId("1"), OrdId("2")}
MalformedIds == {ORDER_ID_PREFIX}
Securities == {"SecId1"}
\* Each user places orders for one company.
Accounts == {<<"User1", "CompA">>, <<"User2", "CompB">>}
Users == {a[1] : a \in Accounts}
Companies == {a[2] : a \in Accounts}
Sides == {BUY_SIDE, SELL_SIDE}
\* The quantity an order id is submitted with.
QtyOf(id) == IF id = OrdId("2") THEN 2 ELSE 1
MinQtys == {0, 1, 2}

ValidOrders ==
    {Order(id, s, sd, QtyOf(id), a[1], a[2]) :
        id \in OrderIds, s \in Securities, sd \in Sides, a \in Accounts}

InvalidOrders == {Order(OrdId("0"), "SecId1", BUY_SIDE, 0, "User1", "CompA")}

Orders == ValidOrders \cup InvalidOrders

\* The length of the maxVolumes vector of a security (0 without snapshot).
VolumesLen(c, securityId) ==
    IF MapHas(c.m_securitySnapshots, securityId)
    THEN Len(c.m_securitySnapshots[securityId].maxVolumes)
    ELSE 0

AddOrder(order) == Commit(addOrder(Self, order))

CancelOrder(orderId) == Commit(cancelOrder(Self, orderId))

CancelOrdersForUser(user) == Commit(cancelOrdersForUser(Self, user))

CancelOrdersForSecIdWithMinimumQty(securityId, minQty) ==
    Commit(cancelOrdersForSecIdWithMinimumQty(Self, securityId, minQty))

\* Adds are explored while the security's maxVolumes is below the bound.
Next ==
    \/ \E order \in Orders :
           /\ VolumesLen(Self, order.securityId) < MaxVolumesLen
           /\ AddOrder(order)
    \/ \E orderId \in OrderIds \cup MalformedIds : CancelOrder(orderId)
    \/ \E user \in Users : CancelOrdersForUser(user)
    \/ \E securityId \in Securities, minQty \in MinQtys :
           CancelOrdersForSecIdWithMinimumQty(securityId, minQty)

Spec == Init /\ [][Next]_vars

----------------------------------------------------------------------------
\* The concrete scenarios of the specification (section 8): the six orders
\* of S3 on one security, the cancel by user of S4, the bulk cancel of S5
\* and the cancel of S6.

SEC == "SEC"

S3Orders ==
    <<Order(OrdId("1"), SEC, BUY_SIDE, 1000, "u1", "CompA"),
      Order(OrdId("2"), SEC, SELL_SIDE, 3000, "u2", "CompB"),
      Order(OrdId("3"), SEC, BUY_SIDE, 500, "u3", "CompA"),
      Order(OrdId("4"), SEC, BUY_SIDE, 600, "u4", "CompC"),
      Order(OrdId("5"), SEC, SELL_SIDE, 100, "u5", "CompB"),
      Order(OrdId("6"), SEC, SELL_SIDE, 2000, "u6", "CompC")>>

NextS3 ==
    \/ \E k \in 1..Len(S3Orders) :
           /\ VolumesLen(Self, SEC) < MaxVolumesLenS3
           /\ AddOrder(S3Orders[k])
    \/ CancelOrder(OrdId("1"))
    \/ CancelOrdersForUser("u1")
    \/ CancelOrdersForSecIdWithMinimumQty(SEC, 1000)

SpecS3 == Init /\ [][NextS3]_vars

----------------------------------------------------------------------------
\* Order books of one security built by adds alone: four order ids, three
\* companies, both sides.  Used for the claim about the closed form.

BookIds == <<OrdId("0"), OrdId("1"), OrdId("2"), OrdId("3")>>
BookQtys == <<1, 2, 3, 2>>
BookCompanies == {"CompA", "CompB", "CompC"}

BookOrders ==
    {Order(BookIds[k], SEC, sd, BookQtys[k], "u1", cp) :
        k \in 1..Len(BookIds), sd \in Sides, cp \in BookCompanies}

NextBook == \E order \in BookOrders : AddOrder(order)

SpecBook == Init /\ [][NextBook]_vars

----------------------------------------------------------------------------
\* Order ids of every shape, for the claims about the decoding of ids:
\* plain ids, an id with a leading zero, trailing garbage, no digits, too
\* many digits, a wrong prefix and the empty id.

Id1 == OrdId("1")
Id2 == OrdId("2")
Id01 == ORDER_ID_PREFIX \o <<"0", "1">>
Id1x == ORDER_ID_PREFIX \o <<"1", "x">>
Idx == ORDER_ID_PREFIX \o <<"x">>
Id99 == ORDER_ID_PREFIX \o <<"9", "9">>
IdLower == <<"o", "r", "d", "I", "d", "1">>
IdEmpty == <<>>

IdTexts == {Id1, Id2, Id01, Id1x, Idx, Id99, IdLower, IdEmpty, ORDER_ID_PREFIX}

\* Orders with nothing wrong but, for some, the id.
IdOrders ==
    {Order(id, "SecId1", sd, 1, a[1], a[2]) :
        id \in IdTexts, sd \in Sides, a \in Accounts}

\* Orders with a good id and one bad field each.
BadFieldOrders ==
    {Order(Id1, "", BUY_SIDE, 1, "User1", "CompA"),
     Order(Id1, "SecId1", BUY_SIDE, 1, "", "CompA"),
     Order(Id1, "SecId1", BUY_SIDE, 1, "User1", ""),
     Order(Id1, "SecId1", "Hold", 1, "User1", "CompA"),
     Order(Id1, "SecId1", "", 1, "User1", "CompA"),
     Order(Id1, "SecId1", BUY_SIDE, 0, "User1", "CompA")}

\* Orders with any mix of bad fields.
ManyFaultOrders ==
    {Order(id, secId, sd, q, user, company) :
        id \in {Id1, IdEmpty, Idx, Id99, ORDER_ID_PREFIX},
        secId \in {"SecId1", ""}, sd \in {BUY_SIDE, SELL_SIDE, "Hold"},
        q \in {0, 1}, user \in {"User1", ""}, company \in {"CompA", ""}}

NextIds ==
    \/ \E order \in IdOrders \cup BadFieldOrders \cup ManyFaultOrders :
           /\ VolumesLen(Self, "SecId1") < MaxVolumesLen
           /\ AddOrder(order)
    \/ \E orderId \in IdTexts : CancelOrder(orderId)
    \/ \E user \in Users : CancelOrdersForUser(user)
    \/ \E minQty \in {0, 1} :
           CancelOrdersForSecIdWithMinimumQty("SecId1", minQty)

SpecIds == Init /\ [][NextIds]_vars

----------------------------------------------------------------------------
\* Two securities, for the claims about the cancel by security: each
\* order id belongs to one account, User1 buys and User2 sells, on either
\* security.

BulkSecurities == {"SecId1", "SecId2"}

SideOf(user) == IF user = "User1" THEN BUY_SIDE ELSE SELL_SIDE

AccountOf(id) ==
    IF id = OrdId("1") THEN <<"User2", "CompB">> ELSE <<"User1", "CompA">>

BulkOrders ==
    {Order(id, s, SideOf(AccountOf(id)[1]), QtyOf(id),
           AccountOf(id)[1], AccountOf(id)[2]) :
        id \in OrderIds, s \in BulkSecurities}

NextBulk ==
    \/ \E order \in BulkOrders :
           /\ VolumesLen(Self, order.securityId) < MaxVolumesLen
           /\ AddOrder(order)
    \/ \E orderId \in OrderIds : CancelOrder(orderId)
    \/ \E user \in Users : CancelOrdersForUser(user)
    \/ \E securityId \in BulkSecurities, minQty \in MinQtys :
           CancelOrdersForSecIdWithMinimumQty(securityId, minQty)

SpecBulk == Init /\ [][NextBulk]_vars

----------------------------------------------------------------------------
\* Two order ids submitted with any side, quantity and account, so that an
\* id comes back after a cancel with other fields.

ReaddIds == {OrdId("0"), OrdId("1")}
ReaddQtys == {1, 2}

ReaddOrders ==
    {Order(id, "SecId1", sd, q, a[1], a[2]) :
        id \in ReaddIds, sd \in Sides, q \in ReaddQtys, a \in Accounts}

NextReadd ==
    \/ \E order \in ReaddOrders :
           /\ VolumesLen(Self, order.securityId) < MaxVolumesLen
           /\ AddOrder(order)
    \/ \E orderId \in ReaddIds : CancelOrder(orderId)
    \/ \E user \in Users : CancelOrdersForUser(user)
    \/ \E minQty \in ReaddQtys :
           CancelOrdersForSecIdWithMinimumQty("SecId1", minQty)

SpecReadd == Init /\ [][NextReadd]_vars

----------------------------------------------------------------------------
\* What the claims speak of: the live orders and their exact aggregates,
\* recomputed from the orders themselves.

LiveOrders(c) == {getAllOrders(c)[k] : k \in 1..Len(getAllOrders(c))}

LiveIn(c, securityId) == {o \in LiveOrders(c) : o.securityId = securityId}

RECURSIVE SumQty(_)
SumQty(os) ==
    IF os = {} THEN 0
    ELSE LET o == CHOOSE x \in os : TRUE IN o.qty + SumQty(os \ {o})

LiveBuy(c, securityId) ==
    SumQty({o \in LiveIn(c, securityId) : o.side = BUY_SIDE})

LiveSell(c, securityId) ==
    SumQty({o \in LiveIn(c, securityId) : o.side = SELL_SIDE})

LiveCompanies(c, securityId) == {o.company : o \in LiveIn(c, securityId)}

CompanyVolume(c, securityId, company) ==
    SumQty({o \in LiveIn(c, securityId) : o.company = company})

\* The largest buy+sell total of a single company, 0 without live orders.
LeadingVolume(c, securityId) ==
    IF LiveCompanies(c, securityId) = {} THEN 0
    ELSE CHOOSE v \in {CompanyVolume(c, securityId, cp) :
                          cp \in LiveCompanies(c, securityId)} :
             \A cp \in LiveCompanies(c, securityId) :
                 CompanyVolume(c, securityId, cp) <= v

\* Section 4.5 of the specification, written out on its own.
ClosedForm(B, S, V) ==
    IF B = 0 \/ S = 0 THEN 0
    ELSE LET excessBuy == IF V - S > 0 THEN V - S ELSE 0
             excessSell == IF V - B > 0 THEN V - B ELSE 0
             matchBuy == IF B - excessBuy > 0 THEN B - excessBuy ELSE 0
             matchSell == IF S - excessSell > 0 THEN S - excessSell ELSE 0
         IN  IF matchBuy < matchSell THEN matchBuy ELSE matchSell

ExpectedMatchingSize(c, securityId) ==
    ClosedForm(LiveBuy(c, securityId), LiveSell(c, securityId),
               LeadingVolume(c, securityId))

\* The slot an order id decodes to.
SlotOf(orderId) == _idToIndex(orderId).value

\* Every security the cache has seen or the model names.
KnownSecurities(c) == Securities \cup DOMAIN c.m_securitySnapshots

----------------------------------------------------------------------------
\* C1: after any sequence of calls, the matching size of every security is
\* the closed form on the exact totals B, S of the live buy and sell
\* orders and the exact largest per-company volume V.
C1_MatchingSizeIsClosedForm ==
    \A s \in KnownSecurities(Self) :
        getMatchingSizeForSecurity(Self, s) = ExpectedMatchingSize(Self, s)

\* C2: if all live orders of a security belong to one company, its
\* matching size is 0.
C2_NoSelfMatch ==
    \A s \in KnownSecurities(Self) :
        Cardinality(LiveCompanies(Self, s)) = 1 =>
            getMatchingSizeForSecurity(Self, s) = 0

\* C7: the matching size of a security never exceeds the smaller of its
\* live buy total and its live sell total.
C7_MatchingBound ==
    \A s \in KnownSecurities(Self) :
        getMatchingSizeForSecurity(Self, s)
            <= Min(LiveBuy(Self, s), LiveSell(Self, s))

\* Some security has crossing volume: both sides live, size above 0.
C7_Witness ==
    \E s \in KnownSecurities(Self) :
        /\ getMatchingSizeForSecurity(Self, s) > 0
        /\ LiveBuy(Self, s) # LiveSell(Self, s)

\* C8: adding an order whose slot is already live returns without error
\* and leaves the stored order, both indices and every snapshot as they
\* were, whatever the new order's fields; so add;add equals add, and
\* add;add;cancel on the empty cache leaves no order.
C8_DuplicateAddIsNoOp ==
    \A o \in ValidOrders :
        /\ hasOrder(Self, SlotOf(o.orderId)) => addOrder(Self, o) = Return(Self)
        /\ addOrder(addOrder(Self, o), o) = addOrder(Self, o)
        /\ Self = OrderCache =>
               getAllOrders(cancelOrder(addOrder(addOrder(Self, o), o),
                                        o.orderId)) = <<>>

\* A live order meets an add of the same id with other fields, and the
\* cache is what that add leaves.
C8_Witness ==
    \E o \in ValidOrders :
        /\ hasOrder(Self, SlotOf(o.orderId))
        /\ getOrder(Self, SlotOf(o.orderId)) # o
        /\ Self = addOrder(Self, o)

\* C9: cancelOrder of a well-formed id whose slot is not live returns
\* without error and leaves store, indices and snapshots unchanged; so
\* cancel;cancel equals cancel.
C9_CancelAbsentIsNoOp ==
    \A id \in OrderIds :
        /\ ~hasOrder(Self, SlotOf(id)) => cancelOrder(Self, id) = Return(Self)
        /\ cancelOrder(cancelOrder(Self, id), id) = cancelOrder(Self, id)

\* Orders are live, the id's slot is not, and the cache is what the
\* cancel of that id leaves.
C9_Witness ==
    \E id \in OrderIds :
        /\ ~hasOrder(Self, SlotOf(id))
        /\ LiveOrders(Self) # {}
        /\ Self = cancelOrder(Self, id)

\* The cache after addOrder(o) and then cancelOrder(o.orderId).
RoundTrip(c, o) == cancelOrder(addOrder(c, o), o.orderId)

\* C10: for a valid order whose id is not live, add followed by cancel of
\* its id gives back the same orders from getAllOrders and the same
\* matching size for every security.
C10_RoundTrip ==
    \A o \in ValidOrders :
        ~hasOrder(Self, SlotOf(o.orderId)) =>
            /\ LiveOrders(RoundTrip(Self, o)) = LiveOrders(Self)
            /\ Len(getAllOrders(RoundTrip(Self, o))) = Len(getAllOrders(Self))
            /\ \A s \in KnownSecurities(Self) :
                   getMatchingSizeForSecurity(RoundTrip(Self, o), s)
                       = getMatchingSizeForSecurity(Self, s)

\* An order not live whose add changes the matching size of its security.
C10_Witness ==
    \E o \in ValidOrders :
        /\ ~hasOrder(Self, SlotOf(o.orderId))
        /\ getMatchingSizeForSecurity(addOrder(Self, o), o.securityId)
               # getMatchingSizeForSecurity(Self, o.securityId)

----------------------------------------------------------------------------
\* The scenarios, as the caches the calls produce from the empty cache.

RECURSIVE AddAll(_, _, _)
AddAll(c, orders, k) ==
    IF k > Len(orders) THEN c ELSE AddAll(addOrder(c, orders[k]), orders, k + 1)

AfterS3 == AddAll(OrderCache, S3Orders, 1)
AfterS4 == cancelOrdersForUser(AfterS3, "u1")
AfterS5 == cancelOrdersForSecIdWithMinimumQty(AfterS3, SEC, 1000)

\* C3: scenario S5: after the six S3 orders and the bulk cancel with
\* minimum quantity 1000, exactly OrdId3, OrdId4 and OrdId5 are live and
\* the matching size of SEC is 100.
C3_ScenarioS5 ==
    Self = AfterS5 =>
        /\ LiveOrders(Self) = {S3Orders[3], S3Orders[4], S3Orders[5]}
        /\ getMatchingSizeForSecurity(Self, SEC) = 100

\* C4: scenario S4: after the six S3 orders and cancelOrdersForUser(u1),
\* only OrdId1 is gone and the matching size of SEC is 1100.
C4_ScenarioS4 ==
    Self = AfterS4 =>
        /\ LiveOrders(Self) = {S3Orders[k] : k \in 2..6}
        /\ getMatchingSizeForSecurity(Self, SEC) = 1100

C4_Witness == Self = AfterS4 /\ Len(m_aliveOrderIndexes) = 5

\* C5: scenario S3: after the six S3 orders, added in their order to the
\* empty cache, the matching size of SEC is 2100.
C5_ScenarioS3 ==
    Self = AfterS3 => getMatchingSizeForSecurity(Self, SEC) = 2100

C5_Witness == Self = AfterS3 /\ Len(m_aliveOrderIndexes) = 6

----------------------------------------------------------------------------
\* The crossing problem itself: every buy order may be crossed, in any
\* split, with sell orders of other companies; no order gives more than
\* its quantity.

CrossPairs(os) ==
    {<<b, sl>> \in os \X os :
        b.side = BUY_SIDE /\ sl.side = SELL_SIDE /\ b.company # sl.company}

SetMax(S) == CHOOSE m \in S : \A x \in S : x <= m

\* The most that the pairs can still cross when order id i has rem[i] left.
RECURSIVE BestCross(_, _)
BestCross(pairs, rem) ==
    IF pairs = {} THEN 0
    ELSE LET p == CHOOSE q \in pairs : TRUE
             b == p[1].orderId
             sl == p[2].orderId
         IN  SetMax({x + BestCross(pairs \ {p},
                                   [rem EXCEPT ![b] = @ - x, ![sl] = @ - x]) :
                        x \in 0..Min(rem[b], rem[sl])})

MaxCrossing(os) ==
    BestCross(CrossPairs(os), [i \in {o.orderId : o \in os} |->
                                  (CHOOSE o \in os : o.orderId = i).qty])

\* C6: for every set of live orders of one security, the closed form at
\* the exact B, S and V is the largest quantity that can be crossed
\* between buys and sells of different companies.
C6_ClosedFormIsMaxCrossing ==
    \A s \in KnownSecurities(Self) :
        MatchingSize(LiveBuy(Self, s), LiveSell(Self, s),
                     LeadingVolume(Self, s))
            = MaxCrossing(LiveIn(Self, s))

\* Three companies are live and the company exclusion binds: the crossing
\* is positive and below both side totals.
C6_Witness ==
    /\ Cardinality(LiveCompanies(Self, SEC)) = 3
    /\ MaxCrossing(LiveIn(Self, SEC)) > 0
    /\ MaxCrossing(LiveIn(Self, SEC))
           < Min(LiveBuy(Self, SEC), LiveSell(Self, SEC))

----------------------------------------------------------------------------
\* The claims about order ids.

\* An id as the specification writes it: the prefix and then one or more
\* decimal digits, nothing else.
WellFormed(id) ==
    /\ Len(id) > Len(ORDER_ID_PREFIX)
    /\ SubSeq(id, 1, Len(ORDER_ID_PREFIX)) = ORDER_ID_PREFIX
    /\ \A i \in (Len(ORDER_ID_PREFIX) + 1)..Len(id) : IsDigit(id[i])

\* C11: cancelOrder with a malformed id, an id with characters after the
\* digits included, fails with invalid-argument and changes no view.
C11_MalformedCancelThrows ==
    \A id \in IdTexts :
        ~WellFormed(id) => cancelOrder(Self, id) = Throw(Self)

\* The orders addOrder has to refuse: a bad field, or an id that is
\* malformed or does not fit a slot index.
RejectedOrders ==
    BadFieldOrders \cup
        {o \in IdOrders : ~WellFormed(o.orderId) \/ o.orderId = Id99}

\* C12: addOrder of an order that fails a validator check or whose id
\* cannot be decoded fails with invalid-argument and leaves the store,
\* both indices and every snapshot as they were.
C12_RejectedAddCommitsNothing ==
    \A o \in RejectedOrders : addOrder(Self, o) = Throw(Self)

\* Orders are live and the last call was refused.
C12_Witness ==
    /\ LiveOrders(Self) # {}
    /\ result = "invalid_argument"
    /\ \E o \in RejectedOrders : Self = addOrder(Self, o)

\* addOrder takes the order: the validator passes and the id decodes.
Accepted(o) == validateOrder(o) = NoError /\ _idToIndex(o.orderId).has

\* C13: two different ids that addOrder accepts never decode to the same
\* slot, so no accepted order meets a live order of another id in its
\* slot.
C13_IdToSlotInjective ==
    \A o \in IdOrders :
        Accepted(o) =>
            \A l \in LiveOrders(Self) :
                l.orderId # o.orderId =>
                    SlotOf(l.orderId) # SlotOf(o.orderId)

\* C14: a cancelOrder that returns without error leaves every live order
\* of another order id live.
C14_CancelRemovesOnlyThatId ==
    \A id \in IdTexts :
        cancelOrder(Self, id).result = "ok" =>
            \A l \in LiveOrders(Self) :
                l.orderId # id => l \in LiveOrders(cancelOrder(Self, id))

----------------------------------------------------------------------------
\* The claims about the bulk cancels.

\* The order is live in cache c, in its own slot and with these fields.
LiveAsIs(c, o) ==
    /\ hasOrder(c, SlotOf(o.orderId))
    /\ getOrder(c, SlotOf(o.orderId)) = o
    /\ o \in LiveOrders(c)

\* C15: after cancelOrdersForUser(u) no live order has user u and every
\* order of another user that was live is live with the same fields; if u
\* has no live order the call returns without error and changes nothing.
C15_CancelForUser ==
    \A u \in Users \cup {"Nobody"} :
        LET after == cancelOrdersForUser(Self, u) IN
            /\ after.result = "ok"
            /\ \A o \in LiveOrders(after) : o.user # u
            /\ \A o \in LiveOrders(Self) : o.user # u => LiveAsIs(after, o)
            /\ (\A o \in LiveOrders(Self) : o.user # u) => after = Return(Self)

\* A user with two live orders next to a live order of another user.
C15_Witness ==
    \E u \in Users :
        /\ Cardinality({o \in LiveOrders(Self) : o.user = u}) >= 2
        /\ \E o \in LiveOrders(Self) : o.user # u

\* C16: after cancelOrdersForSecIdWithMinimumQty(s, m) with m > 0 the
\* live orders are those live before less the orders of s with qty >= m:
\* smaller orders of s and all orders of other securities stay, as they
\* were, and orders of s with qty >= m, qty = m included, are gone.
C16_CancelForSecurityMinQty ==
    \A s \in BulkSecurities \cup {"SecId9"}, m \in MinQtys \ {0} :
        LET after == cancelOrdersForSecIdWithMinimumQty(Self, s, m) IN
            /\ after.result = "ok"
            /\ LiveOrders(after) =
                   LiveOrders(Self) \
                       {o \in LiveOrders(Self) : o.securityId = s /\ o.qty >= m}
            /\ Len(getAllOrders(after)) = Cardinality(LiveOrders(after))
            /\ \A o \in LiveOrders(after) : LiveAsIs(after, o)

\* A security holds an order below some minimum and one equal to it, and
\* the other security holds an order too.
C16_Witness ==
    \E s \in BulkSecurities, m \in MinQtys \ {0} :
        /\ \E o \in LiveIn(Self, s) : o.qty < m
        /\ \E o \in LiveIn(Self, s) : o.qty = m
        /\ \E o \in LiveOrders(Self) : o.securityId # s

----------------------------------------------------------------------------
\* C18: the matching size is 0 for a security that never had an order and
\* for a security all of whose orders have been cancelled, however it was
\* emptied.
C18_EmptySecurityMatchesNothing ==
    \A s \in BulkSecurities \cup {"SecId9"} :
        LiveIn(Self, s) = {} => getMatchingSizeForSecurity(Self, s) = 0

\* A security that had orders on both sides has none left, its snapshot
\* still holds volumes of the past, and the other security never had an
\* order.
C18_Witness ==
    \E s \in BulkSecurities :
        /\ MapHas(m_securitySnapshots, s)
        /\ LiveIn(Self, s) = {}
        /\ m_securitySnapshots[s].maxVolumes # <<>>
        /\ Cardinality(DOMAIN m_securitySnapshots[s].companyVolumes) = 2
        /\ \E t \in BulkSecurities : ~MapHas(m_securitySnapshots, t)

----------------------------------------------------------------------------
\* The orders a call leaves live, told from the orders live before it by
\* the order ids as they are written: an add enters its order unless it is
\* refused or an order of the same id is live, a cancel takes out the
\* orders of that id, and the bulk cancels those of the user, or of the
\* security at or above a minimum above 0.

LiveAfterAdd(live, o) ==
    IF o \in RejectedOrders \/ (\E l \in live : l.orderId = o.orderId)
    THEN live
    ELSE live \cup {o}

LiveAfterCancel(live, id) == {l \in live : l.orderId # id}

LiveAfterCancelForUser(live, u) == {l \in live : l.user # u}

LiveAfterCancelForSecurity(live, s, m) ==
    IF m = 0 THEN live
    ELSE {l \in live : ~(l.securityId = s /\ l.qty >= m)}

\* C19: getAllOrders returns exactly the live orders, each once and with
\* the fields it was added with: it is empty at first, has no order twice,
\* and every call changes it as the history of adds and cancels says.
C19_AllOrdersAreTheLiveOrders ==
    /\ Len(getAllOrders(Self)) = Cardinality(LiveOrders(Self))
    /\ getAllOrders(OrderCache) = <<>>
    /\ \A o \in IdOrders \cup BadFieldOrders :
           LiveOrders(addOrder(Self, o)) = LiveAfterAdd(LiveOrders(Self), o)
    /\ \A id \in IdTexts :
           LiveOrders(cancelOrder(Self, id))
               = LiveAfterCancel(LiveOrders(Self), id)
    /\ \A u \in Users :
           LiveOrders(cancelOrdersForUser(Self, u))
               = LiveAfterCancelForUser(LiveOrders(Self), u)
    /\ \A m \in {0, 1} :
           LiveOrders(cancelOrdersForSecIdWithMinimumQty(Self, "SecId1", m))
               = LiveAfterCancelForSecurity(LiveOrders(Self), "SecId1", m)

----------------------------------------------------------------------------
\* The four views of cache c hold the live orders and nothing else.

ToSet(seq) == {seq[k] : k \in 1..Len(seq)}

\* An index: every bucket lists, once each, the slots of the live orders
\* of its key, and every live order is in the bucket of its key.
IndexHoldsLive(c, index, KeyOf(_)) ==
    /\ \A key \in DOMAIN index :
           /\ ToSet(index[key]) =
                  {SlotOf(l.orderId) : l \in {x \in LiveOrders(c) : KeyOf(x) = key}}
           /\ Len(index[key]) = Cardinality(ToSet(index[key]))
    /\ \A l \in LiveOrders(c) : KeyOf(l) \in DOMAIN index

UserOf(o) == o.user
SecurityOf(o) == o.securityId

\* A snapshot: the totals and the volumes of each company are those of
\* the live orders, and so is the leading volume read by the query.
SnapshotHoldsLive(c, s) ==
    LET snapshot == c.m_securitySnapshots[s] IN
        /\ snapshot.totalBuy = LiveBuy(c, s)
        /\ snapshot.totalSell = LiveSell(c, s)
        /\ LiveCompanies(c, s) \subseteq DOMAIN snapshot.companyVolumes
        /\ \A cp \in DOMAIN snapshot.companyVolumes :
               snapshot.companyVolumes[cp].buy + snapshot.companyVolumes[cp].sell
                   = CompanyVolume(c, s, cp)
        /\ (IF snapshot.maxVolumes = <<>> THEN 0 ELSE Back(snapshot.maxVolumes))
               = LeadingVolume(c, s)

ViewsHoldLive(c) ==
    /\ Len(getAllOrders(c)) = Cardinality(LiveOrders(c))
    /\ \A l \in LiveOrders(c) : LiveAsIs(c, l)
    /\ IndexHoldsLive(c, c.m_userOrderIds, UserOf)
    /\ IndexHoldsLive(c, c.m_securityOrderIds, SecurityOf)
    /\ \A l \in LiveOrders(c) : l.securityId \in DOMAIN c.m_securitySnapshots
    /\ \A s \in DOMAIN c.m_securitySnapshots : SnapshotHoldsLive(c, s)

\* The slot held an order that was cancelled.
WasCancelled(c, slot) ==
    /\ slot < StorageSize(c)
    /\ c.m_orders[slot] # BlankOrder
    /\ ~hasOrder(c, slot)

\* C20: an order id is absent or live; an accepted add of an id that is
\* not live makes it live, every cancel that reaches it makes it absent,
\* and the add of an id cancelled before, with whatever fields, is
\* accepted and leaves the four views holding the new order and nothing
\* of the earlier one.
C20_OrderLifeCycle ==
    \A o \in ReaddOrders :
        LET slot == SlotOf(o.orderId)
            after == addOrder(Self, o)
        IN  ~hasOrder(Self, slot) =>
                /\ after.result = "ok"
                /\ LiveAsIs(after, o)
                /\ ~hasOrder(cancelOrder(after, o.orderId), slot)
                /\ ~hasOrder(cancelOrdersForUser(after, o.user), slot)
                /\ ~hasOrder(cancelOrdersForSecIdWithMinimumQty(
                                 after, o.securityId, o.qty), slot)
                /\ WasCancelled(Self, slot) => ViewsHoldLive(after)

----------------------------------------------------------------------------
\* The claims about the validator.

\* The digits of a well-formed id give a value of the index type.
FitsIndex(id) ==
    DigitsValue(SubSeq(id, Len(ORDER_ID_PREFIX) + 1, Len(id)), 0) <= UINT64_MAX

\* C21: the id-format check accepts an id, offered or stored, exactly
\* when it is the prefix followed by one or more decimal digits whose
\* value fits the index type; the bare prefix and an overflowing digit
\* run are refused.
C21_IdFormatCheck ==
    \A id \in IdTexts \cup {l.orderId : l \in LiveOrders(Self)} :
        (_validateOrderIdFormat(id) = NoError)
            <=> (WellFormed(id) /\ FitsIndex(id))

\* The first constraint an order violates, in the order of the error
\* kinds, with the id format as the specification defines it.
FirstViolation(o) ==
    IF o.orderId = <<>> THEN "EmptyOrderId"
    ELSE IF ~(WellFormed(o.orderId) /\ FitsIndex(o.orderId))
        THEN "InvalidOrderIdFormat"
    ELSE IF o.securityId = "" THEN "EmptySecurityId"
    ELSE IF o.user = "" THEN "EmptyUser"
    ELSE IF o.company = "" THEN "EmptyCompany"
    ELSE IF o.side \notin {BUY_SIDE, SELL_SIDE} THEN "InvalidSide"
    ELSE IF o.qty = 0 THEN "ZeroQuantity"
    ELSE NoError

\* C22: validateOrder reports the first violated constraint in the order
\* EmptyOrderId, InvalidOrderIdFormat, EmptySecurityId, EmptyUser,
\* EmptyCompany, InvalidSide, ZeroQuantity, and no error exactly when
\* none is violated.
C22_ValidationOrder ==
    \A o \in ManyFaultOrders \cup LiveOrders(Self) :
        validateOrder(o) = FirstViolation(o)

----------------------------------------------------------------------------
\* The invariants of the indices and of the snapshots.

\* C23: index consistency: the slot of every live order is once in the
\* bucket of its user and once in the bucket of its security and in no
\* other bucket, and no bucket holds a slot that is not live.
C23_IndexConsistency ==
    /\ IndexHoldsLive(Self, m_userOrderIds, UserOf)
    /\ IndexHoldsLive(Self, m_securityOrderIds, SecurityOf)
    /\ \A key \in DOMAIN m_userOrderIds :
           \A i \in ToSet(m_userOrderIds[key]) : hasOrder(Self, i)
    /\ \A key \in DOMAIN m_securityOrderIds :
           \A i \in ToSet(m_securityOrderIds[key]) : hasOrder(Self, i)

\* A slot has been cancelled out of a bucket that still holds two slots.
C23_Witness ==
    \E slot \in DOMAIN m_orders :
        /\ WasCancelled(Self, slot)
        /\ MapHas(m_userOrderIds, m_orders[slot].user)
        /\ Len(m_userOrderIds[m_orders[slot].user]) >= 2

\* The number of entries of sequence seq equal to v.
CountIn(seq, v) == Cardinality({k \in 1..Len(seq) : seq[k] = v})

\* C24: for every security, maxVolumes as a multiset is the multiset of
\* the current buy+sell totals of the companies with a live order in it:
\* one entry per such company, equal to its combined volume.
C24_MaxVolumesIsCompanyVolumes ==
    \A s \in DOMAIN m_securitySnapshots :
        LET maxVolumes == m_securitySnapshots[s].maxVolumes IN
            /\ Len(maxVolumes) = Cardinality(LiveCompanies(Self, s))
            /\ \A cp \in LiveCompanies(Self, s) :
                   CountIn(maxVolumes, CompanyVolume(Self, s, cp)) =
                       Cardinality({d \in LiveCompanies(Self, s) :
                           CompanyVolume(Self, s, d) = CompanyVolume(Self, s, cp)})

\* C25: an add for a company whose combined volume in the security is
\* already positive takes one occurrence of the old volume out of
\* maxVolumes before it puts the new one in, so the number of entries of
\* maxVolumes does not change.
C25_AddReplacesOldVolume ==
    \A o \in ValidOrders :
        (/\ ~hasOrder(Self, SlotOf(o.orderId))
         /\ CompanyVolume(Self, o.securityId, o.company) > 0)
            => VolumesLen(addOrder(Self, o), o.securityId)
                   = VolumesLen(Self, o.securityId)

\* C26: after the cancel of an order whose company keeps a positive
\* combined volume in the security, maxVolumes contains that reduced
\* volume.
C26_CancelInsertsReducedVolume ==
    \A id \in OrderIds :
        hasOrder(Self, SlotOf(id)) =>
            LET o == getOrder(Self, SlotOf(id))
                after == cancelOrder(Self, id)
                reduced == CompanyVolume(after, o.securityId, o.company)
            IN  reduced > 0 =>
                    reduced \in ToSet(after.m_securitySnapshots[o.securityId]
                                          .maxVolumes)

\* C27: maxVolumes holds no entry of a company whose combined live volume
\* is zero; so where no order of a security is live, every company is at
\* zero and maxVolumes is empty.
C27_NoEntryForZeroVolume ==
    \A s \in DOMAIN m_securitySnapshots :
        LiveIn(Self, s) = {} => m_securitySnapshots[s].maxVolumes = <<>>

\* C28: in every snapshot the largest element of maxVolumes, 0 if there
\* is none, is at most totalBuy + totalSell.
C28_MaxVolumeWithinTotals ==
    \A s \in DOMAIN m_securitySnapshots :
        LET snapshot == m_securitySnapshots[s] IN
            (IF snapshot.maxVolumes = <<>> THEN 0 ELSE Back(snapshot.maxVolumes))
                <= snapshot.totalBuy + snapshot.totalSell

\* C29: snapshot totality: for every security, totalBuy is the sum of qty
\* of its live Buy orders and totalSell that of its live Sell orders, both
\* 0 without live orders.
C29_SnapshotTotals ==
    \A s \in BulkSecurities \cup DOMAIN m_securitySnapshots :
        LET snapshot == MapAt(m_securitySnapshots, s, EmptySnapshot) IN
            /\ snapshot.totalBuy = LiveBuy(Self, s)
            /\ snapshot.totalSell = LiveSell(Self, s)

\* A security holds live orders on both sides, and an order of the other
\* security has been cancelled.
C29_Witness ==
    \E s \in BulkSecurities :
        /\ LiveBuy(Self, s) > 0
        /\ LiveSell(Self, s) > 0
        /\ \E slot \in DOMAIN m_orders :
               WasCancelled(Self, slot) /\ m_orders[slot].securityId # s

\* The live orders of a company in a security on one side.
CompanySide(c, s, company, side) ==
    SumQty({o \in LiveIn(c, s) : o.company = company /\ o.side = side})

\* C30: for every security and every company with a live order in it,
\* companyVolumes holds the sum of qty of the company's live Buy orders
\* and the sum of qty of its live Sell orders there.
C30_CompanyVolumes ==
    \A s \in DOMAIN m_securitySnapshots :
        \A cp \in LiveCompanies(Self, s) :
            /\ MapHas(m_securitySnapshots[s].companyVolumes, cp)
            /\ m_securitySnapshots[s].companyVolumes[cp] =
                   [buy |-> CompanySide(Self, s, cp, BUY_SIDE),
                    sell |-> CompanySide(Self, s, cp, SELL_SIDE)]

\* A company holds live orders on both sides after one of its orders has
\* been cancelled.
C30_Witness ==
    \E s \in DOMAIN m_securitySnapshots :
        \E cp \in LiveCompanies(Self, s) :
            /\ CompanySide(Self, s, cp, BUY_SIDE) > 0
            /\ CompanySide(Self, s, cp, SELL_SIDE) > 0
            /\ \E slot \in DOMAIN m_orders :
                   WasCancelled(Self, slot) /\ m_orders[slot].company = cp

----------------------------------------------------------------------------
\* The maxVolumes vector of security s in cache c.
MaxVolumesOf(c, s) == MapAt(c.m_securitySnapshots, s, EmptySnapshot).maxVolumes

\* A cancel takes at most one occurrence of the company's volume before
\* the cancel out of maxVolumes and changes no other entry.
CancelErasesAtMostOne ==
    \A id \in OrderIds :
        hasOrder(Self, SlotOf(id)) =>
            LET o == getOrder(Self, SlotOf(id))
                before == MaxVolumesOf(Self, o.securityId)
                after == MaxVolumesOf(cancelOrder(Self, id), o.securityId)
                v == CompanyVolume(Self, o.securityId, o.company)
            IN  /\ CountIn(after, v) >= CountIn(before, v) - 1
                /\ \A w \in ToSet(before) \ {v} :
                       CountIn(after, w) = CountIn(before, w)

\* Another company has the same combined volume as the company of the
\* cancelled order, and an entry of that volume is left after the cancel.
OtherCompanyKeepsEntry ==
    \A id \in OrderIds :
        hasOrder(Self, SlotOf(id)) =>
            LET o == getOrder(Self, SlotOf(id))
                v == CompanyVolume(Self, o.securityId, o.company)
            IN  \A d \in LiveCompanies(Self, o.securityId) \ {o.company} :
                    CompanyVolume(Self, o.securityId, d) = v =>
                        v \in ToSet(MaxVolumesOf(cancelOrder(Self, id),
                                                 o.securityId))

\* C31: removing an order from the snapshot removes at most one
\* occurrence of its company's combined volume from maxVolumes, so when
\* two companies have the same combined volume and an order of one is
\* cancelled, the entry of the other is still there.
C31_CancelKeepsOtherCompanysEntry ==
    CancelErasesAtMostOne /\ OtherCompanyKeepsEntry

----------------------------------------------------------------------------
\* The std::multiset-based variant of the cache (part_001 lines 1-265 with
\* OrderLinearStorage of part_000).  It keeps its state in the same
\* variables: m_orders is the storage vector, m_aliveOrderIndexes holds the
\* std::set m_indexes as the ascending sequence its iteration yields,
\* m_userOrderIds and m_securityOrderIds hold m_userOrders and
\* m_securityOrders, whose buckets are order id texts, and maxVolumes holds
\* the std::multiset as the ascending sequence of its elements.
\* m_orderPositions has no counterpart and stays as constructed.

_idToStorageIndex(id) ==
    IF Len(id) <= Len(ORDER_ID_PREFIX) THEN NullOpt
    ELSE IF SubSeq(id, 1, Len(ORDER_ID_PREFIX)) # ORDER_ID_PREFIX THEN NullOpt
    ELSE LET numPart == SubSeq(id, Len(ORDER_ID_PREFIX) + 1, Len(id))
             parsed == from_chars(numPart)
             ptr == DigitRun(numPart)
         IN  IF parsed.ec # "ok" \/ ptr # Len(numPart) THEN NullOpt
             ELSE Some(parsed.value)

Linear_hasOrder(c, index) == index \in ToSet(c.m_aliveOrderIndexes)

Linear_getOrder(c, index) == c.m_orders[index]

Linear_addOrder(c, order, index) ==
    LET orders == IF index > Cardinality(DOMAIN c.m_orders) - 1
                  THEN Resize(c.m_orders, index + 1, BlankOrder)
                  ELSE c.m_orders
    IN  [c EXCEPT
            !.m_orders = [orders EXCEPT ![index] = order],
            \* std::set::emplace: no second copy of a key, ascending order
            !.m_aliveOrderIndexes =
                IF index \in ToSet(@) THEN @
                ELSE InsertAt(@, LowerBound(@, index), index)]

Linear_cancelOrder(c, index) ==
    [c EXCEPT !.m_aliveOrderIndexes =
        IF Find(@, index) <= Len(@) THEN EraseAt(@, Find(@, index)) ELSE @]

Linear_getAllOrders(c) ==
    [k \in 1..Len(c.m_aliveOrderIndexes) |->
        c.m_orders[c.m_aliveOrderIndexes[k]]]

\* std::multiset::erase(value): every element equal to value goes.
MultisetErase(volumes, value) == SelectSeq(volumes, LAMBDA x : x # value)

Multiset_addOrderToSnapshot(order, snapshot) ==
    LET compVol == MapAt(snapshot.companyVolumes, order.company,
                         EmptyCompanyVolume)
        qty == order.qty
        isBuy == order.side = BUY_SIDE
        newVol == IF isBuy THEN [compVol EXCEPT !.buy = @ + qty]
                  ELSE [compVol EXCEPT !.sell = @ + qty]
        insertVolume == newVol.buy + newVol.sell
    IN  [totalBuy |-> IF isBuy THEN snapshot.totalBuy + qty
                      ELSE snapshot.totalBuy,
         totalSell |-> IF isBuy THEN snapshot.totalSell
                       ELSE snapshot.totalSell + qty,
         companyVolumes |->
             MapPut(snapshot.companyVolumes, order.company, newVol),
         maxVolumes |->
             InsertAt(snapshot.maxVolumes,
                      LowerBound(snapshot.maxVolumes, insertVolume),
                      insertVolume)]

Multiset_removeOrderFromSnapshot(order, snapshot) ==
    LET compVol == MapAt(snapshot.companyVolumes, order.company,
                         EmptyCompanyVolume)
        qty == order.qty
        isBuy == order.side = BUY_SIDE
        removeCompanyVolume == compVol.buy + compVol.sell
        newVol == IF isBuy THEN [compVol EXCEPT !.buy = @ - qty]
                  ELSE [compVol EXCEPT !.sell = @ - qty]
    IN  [totalBuy |-> IF isBuy THEN snapshot.totalBuy - qty
                      ELSE snapshot.totalBuy,
         totalSell |-> IF isBuy THEN snapshot.totalSell
                       ELSE snapshot.totalSell - qty,
         companyVolumes |->
             MapPut(snapshot.companyVolumes, order.company, newVol),
         maxVolumes |-> MultisetErase(snapshot.maxVolumes,
                                      removeCompanyVolume)]

Multiset_updateSecuritySnapshots(c, order, action) ==
    LET snapshot == MapAt(c.m_securitySnapshots, order.securityId,
                          EmptySnapshot)
    IN  [c EXCEPT !.m_securitySnapshots =
            MapPut(@, order.securityId,
                   IF action = ADD_ORDER
                   THEN Multiset_addOrderToSnapshot(order, snapshot)
                   ELSE Multiset_removeOrderFromSnapshot(order, snapshot))]

Multiset_addOrder(c, order) ==
    IF validateOrder(order) # NoError THEN Throw(c)
    ELSE LET idValue == _idToStorageIndex(order.orderId) IN
        IF ~idValue.has THEN Throw(c)
        ELSE IF Linear_hasOrder(c, idValue.value) THEN Return(c)
        ELSE LET index == idValue.value
                 c1 == [c EXCEPT !.m_userOrderIds =
                           _addOrderId(@, order.user, order.orderId)]
                 c2 == [c1 EXCEPT !.m_securityOrderIds =
                           _addOrderId(@, order.securityId, order.orderId)]
                 c3 == Multiset_updateSecuritySnapshots(c2, order, ADD_ORDER)
             IN  Return(Linear_addOrder(c3, order, index))

Multiset_cancelOrder(c, orderId) ==
    LET idValue == _idToStorageIndex(orderId) IN
        IF ~idValue.has THEN Throw(c)
        ELSE IF ~Linear_hasOrder(c, idValue.value) THEN Return(c)
        ELSE LET index == idValue.value
                 order == Linear_getOrder(c, index)
                 c1 == [c EXCEPT !.m_userOrderIds =
                           _removeOrderId(@, order.user, orderId)]
                 c2 == [c1 EXCEPT !.m_securityOrderIds =
                           _removeOrderId(@, order.securityId, orderId)]
                 c3 == Multiset_updateSecuritySnapshots(c2, order,
                                                        REMOVE_ORDER)
             IN  Return(Linear_cancelOrder(c3, index))

\* for (const auto& orderId : orderIds) cancelOrder(orderId), from element
\* k of the copied bucket; an exception of cancelOrder ends the loop.
RECURSIVE Multiset_CancelEach(_, _, _)
Multiset_CancelEach(c, orderIds, k) ==
    IF k > Len(orderIds) THEN Return(c)
    ELSE LET c1 == Multiset_cancelOrder(c, orderIds[k])
         IN  IF c1.result = "invalid_argument" THEN c1
             ELSE Multiset_CancelEach(c1, orderIds, k + 1)

Multiset_cancelOrdersForUser(c, user) ==
    IF MapHas(c.m_userOrderIds, user)
    THEN Multiset_CancelEach(c, c.m_userOrderIds[user], 1)
    ELSE Return(c)

RECURSIVE Multiset_CancelEachWithMinimumQty(_, _, _, _)
Multiset_CancelEachWithMinimumQty(c, orderIds, minQty, k) ==
    IF k > Len(orderIds) THEN Return(c)
    ELSE LET idValue == _idToStorageIndex(orderIds[k]) IN
        IF ~idValue.has THEN Throw(c)
        ELSE IF ~Linear_hasOrder(c, idValue.value)
            THEN Multiset_CancelEachWithMinimumQty(c, orderIds, minQty, k + 1)
        ELSE IF Linear_getOrder(c, idValue.value).qty >= minQty
            THEN LET c1 == Multiset_cancelOrder(c, orderIds[k])
                 IN  IF c1.result = "invalid_argument" THEN c1
                     ELSE Multiset_CancelEachWithMinimumQty(
                              c1, orderIds, minQty, k + 1)
        ELSE Multiset_CancelEachWithMinimumQty(c, orderIds, minQty, k + 1)

Multiset_cancelOrdersForSecIdWithMinimumQty(c, securityId, minQty) ==
    IF minQty = 0 THEN Return(c)
    ELSE IF ~MapHas(c.m_securityOrderIds, securityId) THEN Return(c)
    ELSE Multiset_CancelEachWithMinimumQty(
             c, c.m_securityOrderIds[securityId], minQty, 1)

\* V is *maxVolumes.rbegin(), the largest element.
Multiset_getMatchingSizeForSecurity(c, securityId) ==
    IF MapHas(c.m_securitySnapshots, securityId)
    THEN LET snapshot == c.m_securitySnapshots[securityId]
         IN  ToUnsignedInt(
                 MatchingSize(snapshot.totalBuy, snapshot.totalSell,
                              IF snapshot.maxVolumes = <<>> THEN 0
                              ELSE Back(snapshot.maxVolumes)))
    ELSE 0

Multiset_getAllOrders(c) == Linear_getAllOrders(c)

NextMultiset ==
    \/ \E order \in Orders :
           /\ VolumesLen(Self, order.securityId) < MaxVolumesLen
           /\ Commit(Multiset_addOrder(Self, order))
    \/ \E orderId \in OrderIds \cup MalformedIds :
           Commit(Multiset_cancelOrder(Self, orderId))
    \/ \E user \in Users : Commit(Multiset_cancelOrdersForUser(Self, user))
    \/ \E securityId \in Securities, minQty \in MinQtys :
           Commit(Multiset_cancelOrdersForSecIdWithMinimumQty(
                      Self, securityId, minQty))

SpecMultiset == Init /\ [][NextMultiset]_vars

\* The live orders of the variant and a company's combined volume in a
\* security, recomputed from them.
Multiset_LiveOrders(c) ==
    {Multiset_getAllOrders(c)[k] : k \in 1..Len(Multiset_getAllOrders(c))}

Multiset_CompanyVolume(c, securityId, company) ==
    SumQty({o \in Multiset_LiveOrders(c) :
               o.securityId = securityId /\ o.company = company})

\* C32: in the multiset variant a cancel removes only one occurrence of
\* the company's combined volume before the cancel from maxVolumes, so
\* another company of the same combined volume keeps its entry and the
\* maximum getMatchingSizeForSecurity reads is at least that volume.
C32_MultisetCancelKeepsOtherCompanysEntry ==
    \A o \in Multiset_LiveOrders(Self) :
        LET s == o.securityId
            v == Multiset_CompanyVolume(Self, s, o.company)
            before == MaxVolumesOf(Self, s)
            after == MaxVolumesOf(Multiset_cancelOrder(Self, o.orderId), s)
        IN  /\ CountIn(after, v) >= CountIn(before, v) - 1
            /\ \A d \in {l.company : l \in Multiset_LiveOrders(Self)}
                        \ {o.company} :
                   Multiset_CompanyVolume(Self, s, d) = v =>
                       /\ v \in ToSet(after)
                       /\ Back(after) >= v

----------------------------------------------------------------------------
\* No index of cache c has a key with an empty bucket.
NoEmptyBucket(c) ==
    /\ \A key \in DOMAIN c.m_userOrderIds : c.m_userOrderIds[key] # <<>>
    /\ \A key \in DOMAIN c.m_securityOrderIds :
           c.m_securityOrderIds[key] # <<>>

\* C33: no empty buckets: neither the user index nor the security index
\* has a key whose bucket is empty, and the cancel that takes the last
\* slot of a key takes the key out of the mapping as well.
C33_NoEmptyBuckets ==
    /\ NoEmptyBucket(Self)
    /\ \A id \in OrderIds :
           hasOrder(Self, SlotOf(id)) =>
               LET o == getOrder(Self, SlotOf(id))
                   c1 == cancelOrder(Self, id)
               IN  /\ NoEmptyBucket(c1)
                   /\ m_userOrderIds[o.user] = <<SlotOf(id)>> =>
                          ~MapHas(c1.m_userOrderIds, o.user)
                   /\ m_securityOrderIds[o.securityId] = <<SlotOf(id)>> =>
                          ~MapHas(c1.m_securityOrderIds, o.securityId)

\* The last order of a user has been cancelled while the other user
\* still has an order: the first user's key is gone, the second's is not.
C33_Witness ==
    \E slot \in DOMAIN m_orders :
        /\ WasCancelled(Self, slot)
        /\ ~MapHas(m_userOrderIds, m_orders[slot].user)
        /\ m_userOrderIds # EmptyMap
        /\ m_securityOrderIds # EmptyMap

----------------------------------------------------------------------------
\* The primary store of cache c: the alive list has every live slot once
\* and no other slot, and the position of a live slot is its place in the
\* alive list.
StoreConsistent(c) ==
    LET alive == c.m_aliveOrderIndexes
        live == {i \in DOMAIN c.m_orderPositions : hasOrder(c, i)}
    IN  /\ Len(alive) = Cardinality(ToSet(alive))
        /\ ToSet(alive) = live
        /\ \A i \in live :
               /\ c.m_orderPositions[i] < Len(alive)
               /\ alive[c.m_orderPositions[i] + 1] = i

\* C34: the primary-store invariant: the alive-index list has each live
\* slot once and no slot that is not live, and aliveIndexes[positions[i]]
\* = i for every live slot i, also after the cancel of the slot that is
\* the last entry of the list.
C34_PrimaryStoreInvariant ==
    /\ StoreConsistent(Self)
    /\ m_aliveOrderIndexes # <<>> =>
           StoreConsistent(cancelOrder(Self, getOrder(Self,
                               Back(m_aliveOrderIndexes)).orderId))

\* A cancel has swapped the last entry into the place of an earlier one:
\* a cancelled slot, and two live slots listed out of the order of their
\* slots.
C34_Witness ==
    /\ \E slot \in DOMAIN m_orders : WasCancelled(Self, slot)
    /\ Len(m_aliveOrderIndexes) = 2
    /\ m_aliveOrderIndexes[1] > m_aliveOrderIndexes[2]

----------------------------------------------------------------------------
\* C35: for every live slot i of the primary store, the order stored at i
\* has an order id that decodes to i.
C35_LiveSlotHoldsItsId ==
    \A i \in DOMAIN m_orderPositions :
        hasOrder(Self, i) =>
            /\ _idToIndex(getOrder(Self, i).orderId).has
            /\ _idToIndex(getOrder(Self, i).orderId).value = i

\* Two slots are live, one of them past the constructed capacity, and
\* one holds an order whose id is not the plain text of its slot.
C35_Witness ==
    /\ Len(m_aliveOrderIndexes) = 2
    /\ \E i \in ToSet(m_aliveOrderIndexes) : i >= ORDERS_STORAGE_CAPACITY
    /\ \E i \in ToSet(m_aliveOrderIndexes) :
           getOrder(Self, i).orderId \in {Id01, Id1x}

----------------------------------------------------------------------------
\* The calls the facade makes to the primary store during one operation,
\* in order, each with the slot it is made for and what hasOrder says of
\* that slot at the moment of the call.

StorageCall(call, c, index) ==
    [call |-> call, index |-> index, has |-> hasOrder(c, index)]

\* addOrder calling the store without the test of a live slot.
StorageCalls_addOrder_NoHasTest(c, order) ==
    IF validateOrder(order) # NoError THEN <<>>
    ELSE LET idValue == _idToIndex(order.orderId) IN
        IF ~idValue.has THEN <<>>
        ELSE LET index == idValue.value
                 c1 == [c EXCEPT !.m_userOrderIds =
                           _addOrderId(@, order.user, index)]
                 c2 == [c1 EXCEPT !.m_securityOrderIds =
                           _addOrderId(@, order.securityId, index)]
                 c3 == _updateSecuritySnapshots(c2, order, ADD_ORDER)
             IN  <<StorageCall("addOrder", c3, index)>>

StorageCalls_addOrder(c, order) ==
    IF validateOrder(order) # NoError THEN <<>>
    ELSE LET idValue == _idToIndex(order.orderId) IN
        IF ~idValue.has THEN <<>>
        ELSE IF hasOrder(c, idValue.value) THEN <<>>
        ELSE LET index == idValue.value
                 c1 == [c EXCEPT !.m_userOrderIds =
                           _addOrderId(@, order.user, index)]
                 c2 == [c1 EXCEPT !.m_securityOrderIds =
                           _addOrderId(@, order.securityId, index)]
                 c3 == _updateSecuritySnapshots(c2, order, ADD_ORDER)
             IN  <<StorageCall("addOrder", c3, index)>>

StorageCalls_cancelOrderByIndex(c, index) ==
    LET order == getOrder(c, index)
        c1 == [c EXCEPT !.m_userOrderIds =
                  _removeOrderId(@, order.user, index)]
        c2 == [c1 EXCEPT !.m_securityOrderIds =
                  _removeOrderId(@, order.securityId, index)]
        c3 == _updateSecuritySnapshots(c2, order, REMOVE_ORDER)
    IN  <<StorageCall("getOrder", c, index),
          StorageCall("cancelOrder", c3, index)>>

StorageCalls_cancelOrder(c, orderId) ==
    LET idValue == _idToIndex(orderId) IN
        IF ~idValue.has THEN <<>>
        ELSE IF ~hasOrder(c, idValue.value) THEN <<>>
        ELSE StorageCalls_cancelOrderByIndex(c, idValue.value)

RECURSIVE StorageCalls_CancelEach(_, _, _)
StorageCalls_CancelEach(c, orderIds, k) ==
    IF k > Len(orderIds) THEN <<>>
    ELSE IF ~hasOrder(c, orderIds[k])
        THEN StorageCalls_CancelEach(c, orderIds, k + 1)
    ELSE StorageCalls_cancelOrderByIndex(c, orderIds[k])
         \o StorageCalls_CancelEach(_cancelOrderByIndex(c, orderIds[k]),
                                    orderIds, k + 1)

StorageCalls_cancelOrdersForUser(c, user) ==
    IF MapHas(c.m_userOrderIds, user)
    THEN StorageCalls_CancelEach(c, c.m_userOrderIds[user], 1)
    ELSE <<>>

\* !hasOrder(index) || getOrder(index).qty() < minQty: getOrder is called
\* only when hasOrder is true.
RECURSIVE StorageCalls_CancelEachWithMinimumQty(_, _, _, _)
StorageCalls_CancelEachWithMinimumQty(c, orderIds, minQty, k) ==
    IF k > Len(orderIds) THEN <<>>
    ELSE IF ~hasOrder(c, orderIds[k])
        THEN StorageCalls_CancelEachWithMinimumQty(c, orderIds, minQty, k + 1)
    ELSE IF getOrder(c, orderIds[k]).qty < minQty
        THEN <<StorageCall("getOrder", c, orderIds[k])>>
             \o StorageCalls_CancelEachWithMinimumQty(c, orderIds, minQty,
                                                      k + 1)
    ELSE <<StorageCall("getOrder", c, orderIds[k])>>
         \o StorageCalls_cancelOrderByIndex(c, orderIds[k])
         \o StorageCalls_CancelEachWithMinimumQty(
                _cancelOrderByIndex(c, orderIds[k]), orderIds, minQty, k + 1)

StorageCalls_cancelOrdersForSecIdWithMinimumQty(c, securityId, minQty) ==
    IF minQty = 0 THEN <<>>
    ELSE IF ~MapHas(c.m_securityOrderIds, securityId) THEN <<>>
    ELSE StorageCalls_CancelEachWithMinimumQty(
             c, c.m_securityOrderIds[securityId], minQty, 1)

\* Every call of the sequence meets the precondition of the store.
PreconditionsMet(calls) ==
    \A k \in 1..Len(calls) :
        IF calls[k].call = "addOrder" THEN ~calls[k].has ELSE calls[k].has

\* C36: the facade respects the preconditions of the primary store on
\* every path: getOrder and cancelOrder of the store are called only for
\* a slot hasOrder is true of at that moment, also inside the bulk-cancel
\* loops over the copied bucket, and addOrder of the store only for a
\* slot hasOrder is false of.
C36_StorePreconditions ==
    /\ \A o \in BulkOrders \cup InvalidOrders :
           PreconditionsMet(StorageCalls_addOrder(Self, o))
    /\ \A id \in OrderIds \cup MalformedIds :
           PreconditionsMet(StorageCalls_cancelOrder(Self, id))
    /\ \A u \in Users :
           PreconditionsMet(StorageCalls_cancelOrdersForUser(Self, u))
    /\ \A s \in BulkSecurities, q \in MinQtys :
           PreconditionsMet(
               StorageCalls_cancelOrdersForSecIdWithMinimumQty(Self, s, q))

\* A slot has been cancelled, and the bulk cancels of a user and of a
\* security would each make the calls of two cancels and more.
C36_Witness ==
    /\ \E slot \in DOMAIN m_orders : WasCancelled(Self, slot)
    /\ \E u \in Users :
           Len(StorageCalls_cancelOrdersForUser(Self, u)) >= 4
    /\ \E s \in BulkSecurities :
           Len(StorageCalls_cancelOrdersForSecIdWithMinimumQty(Self, s, 2))
               >= 4

----------------------------------------------------------------------------
\* The cache after each of the four statements that commit an accepted
\* add (src/OrderCache.cpp lines 42-45) and a cancel by slot (lines
\* 170-173).

AddSteps(c, order) ==
    LET index == _idToIndex(order.orderId).value
        c1 == [c EXCEPT !.m_userOrderIds = _addOrderId(@, order.user, index)]
        c2 == [c1 EXCEPT !.m_securityOrderIds =
                  _addOrderId(@, order.securityId, index)]
        c3 == _updateSecuritySnapshots(c2, order, ADD_ORDER)
        c4 == Storage_addOrder(c3, order, index)
    IN  <<c, c1, c2, c3, c4>>

CancelSteps(c, index) ==
    LET order == getOrder(c, index)
        c1 == [c EXCEPT !.m_userOrderIds =
                  _removeOrderId(@, order.user, index)]
        c2 == [c1 EXCEPT !.m_securityOrderIds =
                  _removeOrderId(@, order.securityId, index)]
        c3 == _updateSecuritySnapshots(c2, order, REMOVE_ORDER)
        c4 == Storage_cancelOrder(c3, index)
    IN  <<c, c1, c2, c3, c4>>

\* The view in which cache b differs from cache a.
ChangedView(a, b) ==
    IF \/ a.m_orders # b.m_orders
       \/ a.m_orderPositions # b.m_orderPositions
       \/ a.m_aliveOrderIndexes # b.m_aliveOrderIndexes THEN "store"
    ELSE IF a.m_userOrderIds # b.m_userOrderIds THEN "user list"
    ELSE IF a.m_securityOrderIds # b.m_securityOrderIds THEN "security list"
    ELSE IF a.m_securitySnapshots # b.m_securitySnapshots THEN "snapshot"
    ELSE "none"

\* The views a sequence of caches changes, step by step.
ViewOrder(steps) ==
    [k \in 1..(Len(steps) - 1) |-> ChangedView(steps[k], steps[k + 1])]

Lists == {"user list", "security list"}

\* C37: step ordering: an accepted add updates the primary store first,
\* then the user and security lists, then the snapshot, and a cancel
\* undoes them in the exact reverse order: snapshot, then the security
\* and user lists, then the primary store.
C37_StepOrdering ==
    /\ \A o \in ValidOrders :
           ~hasOrder(Self, SlotOf(o.orderId)) =>
               LET views == ViewOrder(AddSteps(Self, o))
               IN  /\ views[1] = "store"
                   /\ {views[2], views[3]} = Lists
                   /\ views[4] = "snapshot"
    /\ \A id \in OrderIds :
           hasOrder(Self, SlotOf(id)) =>
               LET views == ViewOrder(CancelSteps(Self, SlotOf(id)))
                   added == ViewOrder(AddSteps(
                                cancelOrder(Self, id),
                                getOrder(Self, SlotOf(id))))
               IN  /\ views[1] = "snapshot"
                   /\ {views[2], views[3]} = Lists
                   /\ views[4] = "store"
                   /\ \A k \in 1..4 : views[k] = added[5 - k]

\* What the code does instead: both the add and the cancel go user list,
\* security list, snapshot, primary store, and each sequence of steps
\* ends in the cache the operation returns.
StepsAsCoded ==
    /\ \A o \in ValidOrders :
           ~hasOrder(Self, SlotOf(o.orderId)) =>
               /\ ViewOrder(AddSteps(Self, o)) =
                      <<"user list", "security list", "snapshot", "store">>
               /\ Return(AddSteps(Self, o)[5]) = addOrder(Self, o)
    /\ \A id \in OrderIds :
           hasOrder(Self, SlotOf(id)) =>
               /\ ViewOrder(CancelSteps(Self, SlotOf(id))) =
                      <<"user list", "security list", "snapshot", "store">>
               /\ Return(CancelSteps(Self, SlotOf(id))[5]) =
                      cancelOrder(Self, id)

----------------------------------------------------------------------------
\* The sequence getAllOrders returns after an operation, computed from
\* the sequence it returned before, the operation and, for a bulk cancel,
\* the bucket the operation walks.

\* The place in enum of the order of the given slot, Len(enum) + 1 if none.
PlaceOf(enum, slot) ==
    IF \E k \in 1..Len(enum) : SlotOf(enum[k].orderId) = slot
    THEN CHOOSE k \in 1..Len(enum) : SlotOf(enum[k].orderId) = slot
    ELSE Len(enum) + 1

EnumAfterAdd(enum, o) ==
    IF ~Accepted(o) \/ PlaceOf(enum, SlotOf(o.orderId)) <= Len(enum) THEN enum
    ELSE Append(enum, o)

\* The last order takes the place of the cancelled one.
EnumAfterCancelSlot(enum, slot) ==
    IF PlaceOf(enum, slot) > Len(enum) THEN enum
    ELSE PopBack([enum EXCEPT ![PlaceOf(enum, slot)] = Back(enum)])

RECURSIVE EnumAfterBulk(_, _, _, _)
EnumAfterBulk(enum, bucket, minQty, k) ==
    IF k > Len(bucket) THEN enum
    ELSE LET p == PlaceOf(enum, bucket[k])
         IN  IF p <= Len(enum) /\ enum[p].qty >= minQty
             THEN EnumAfterBulk(EnumAfterCancelSlot(enum, bucket[k]),
                                bucket, minQty, k + 1)
             ELSE EnumAfterBulk(enum, bucket, minQty, k + 1)

\* C38: determinism of enumeration: the sequence getAllOrders returns
\* after an operation is a function of the sequence it returned before,
\* of the operation and of the bucket a bulk cancel walks, so two caches
\* driven by the same sequence of operations return the same orders in
\* the same order after every step.
C38_EnumerationIsDetermined ==
    LET enum == getAllOrders(Self) IN
        /\ \A o \in Orders :
               getAllOrders(addOrder(Self, o)) = EnumAfterAdd(enum, o)
        /\ \A id \in OrderIds :
               getAllOrders(cancelOrder(Self, id)) =
                   EnumAfterCancelSlot(enum, SlotOf(id))
        /\ \A u \in Users :
               getAllOrders(cancelOrdersForUser(Self, u)) =
                   EnumAfterBulk(enum, MapAt(m_userOrderIds, u, <<>>), 0, 1)
        /\ \A s \in Securities, q \in MinQtys \ {0} :
               getAllOrders(cancelOrdersForSecIdWithMinimumQty(Self, s, q)) =
                   EnumAfterBulk(enum, MapAt(m_securityOrderIds, s, <<>>),
                                 q, 1)

\* After a cancel the orders are listed neither in the order of their
\* slots nor in the order a user's bucket has them.
C38_Witness ==
    /\ \E slot \in DOMAIN m_orders : WasCancelled(Self, slot)
    /\ Len(getAllOrders(Self)) = 2
    /\ SlotOf(getAllOrders(Self)[1].orderId)
           > SlotOf(getAllOrders(Self)[2].orderId)
    /\ \E u \in DOMAIN m_userOrderIds :
           /\ Len(m_userOrderIds[u]) = 2
           /\ m_userOrderIds[u] # m_aliveOrderIndexes

----------------------------------------------------------------------------
\* The orders an operation taking cache a to cache b added or removed.
Affected(a, b) ==
    (LiveOrders(a) \ LiveOrders(b)) \cup (LiveOrders(b) \ LiveOrders(a))

\* The entry of key k in map m: <<value>>, or <<>> without the key.
EntryOf(m, k) == IF MapHas(m, k) THEN <<m[k]>> ELSE <<>>

\* The operation taking cache a to cache b left alone the snapshot, the
\* matching size and the bucket of every security, and the bucket of
\* every user, that none of the orders it added or removed names.
FrameKept(a, b) ==
    /\ \A t \in BulkSecurities \ {o.securityId : o \in Affected(a, b)} :
           /\ EntryOf(b.m_securitySnapshots, t) =
                  EntryOf(a.m_securitySnapshots, t)
           /\ getMatchingSizeForSecurity(b, t) =
                  getMatchingSizeForSecurity(a, t)
           /\ EntryOf(b.m_securityOrderIds, t) =
                  EntryOf(a.m_securityOrderIds, t)
    /\ \A u \in Users \ {o.user : o \in Affected(a, b)} :
           EntryOf(b.m_userOrderIds, u) = EntryOf(a.m_userOrderIds, u)

\* C39: frame of a mutation: an addOrder or a cancel that adds or removes
\* only orders of security s leaves the snapshot (totals, company
\* volumes, maxVolumes) and the matching size of every other security as
\* they were, and leaves the buckets of every user and every security
\* that the affected orders do not name as they were.
C39_FrameOfMutation ==
    /\ \A o \in BulkOrders \cup InvalidOrders :
           FrameKept(Self, addOrder(Self, o))
    /\ \A id \in OrderIds \cup MalformedIds :
           FrameKept(Self, cancelOrder(Self, id))
    /\ \A u \in Users : FrameKept(Self, cancelOrdersForUser(Self, u))
    /\ \A s \in BulkSecurities, q \in MinQtys :
           FrameKept(Self, cancelOrdersForSecIdWithMinimumQty(Self, s, q))

\* Both securities have live orders of different users and a slot has
\* been cancelled: every add and every cancel has another security and
\* another user to leave alone.
C39_Witness ==
    /\ \E slot \in DOMAIN m_orders : WasCancelled(Self, slot)
    /\ \A s \in BulkSecurities : LiveIn(Self, s) # {}
    /\ Cardinality({o.user : o \in LiveOrders(Self)}) = 2

----------------------------------------------------------------------------
\* Orders of the largest quantity: two buys of one company and two sells
\* of another, each of quantity 1 or UINT_MAX.

WideIds == {OrdId("0"), OrdId("1"), OrdId("2"), OrdId("3")}

WideOrders ==
    {Order(id, "SecId1",
           IF id \in {OrdId("0"), OrdId("1")} THEN BUY_SIDE ELSE SELL_SIDE,
           q,
           IF id \in {OrdId("0"), OrdId("1")} THEN "User1" ELSE "User2",
           IF id \in {OrdId("0"), OrdId("1")} THEN "CompA" ELSE "CompB") :
        id \in WideIds, q \in {1, UINT_MAX}}

NextWide ==
    \/ \E order \in WideOrders :
           /\ VolumesLen(Self, order.securityId) < MaxVolumesLenWide
           /\ AddOrder(order)
    \/ \E orderId \in WideIds : CancelOrder(orderId)

SpecWide == Init /\ [][NextWide]_vars

FitsInt64(v) == -INT64_MAX - 1 <= v /\ v <= INT64_MAX

\* C40: the arithmetic of getMatchingSizeForSecurity is exact: the signed
\* intermediate values V - S, V - B, B - exBuy and S - exSell never wrap,
\* and the unsigned value returned is the untruncated min(matchBuy,
\* matchSell), also when the live quantities of both sides of a security
\* each sum to more than the largest unsigned int.
C40_MatchingSizeExact ==
    \A s \in DOMAIN m_securitySnapshots :
        LET snapshot == m_securitySnapshots[s]
            B == snapshot.totalBuy
            S == snapshot.totalSell
            V == IF snapshot.maxVolumes = <<>> THEN 0
                 ELSE Back(snapshot.maxVolumes)
            exBuy == Max(0, V - S)
            exSell == Max(0, V - B)
        IN  /\ \A v \in {B, S, V, V - S, V - B, B - exBuy, S - exSell} :
                   FitsInt64(v)
            /\ getMatchingSizeForSecurity(Self, s) = MatchingSize(B, S, V)

\* The intermediate values alone: they stay in the range of int64_t.
IntermediatesFit ==
    \A s \in DOMAIN m_securitySnapshots :
        LET snapshot == m_securitySnapshots[s]
            B == snapshot.totalBuy
            S == snapshot.totalSell
            V == IF snapshot.maxVolumes = <<>> THEN 0
                 ELSE Back(snapshot.maxVolumes)
        IN  \A v \in {B, S, V, V - S, V - B, B - Max(0, V - S),
                      S - Max(0, V - B)} : FitsInt64(v)

====
